---- MODULE Spec2Model ----
(***************************************************************************)
(* Requirements aggregator: directory walk, manifest aggregation, presence *)
(* matrix, path sanitisation and the interactive main program.             *)
(*                                                                         *)
(* Strings are sequences of code points (<<102, 111, 111>> is "foo"), so   *)
(* that strip, split, join, dirname, relpath, the csv writer and           *)
(* sanitize_path are computed character by character as the code does.     *)
(* A dict is a sequence of <<key, value>> pairs in insertion order.        *)
(***************************************************************************)
EXTENDS Integers, Sequences, FiniteSets, TLC

\* ------------------------------------------------------------------ bounds
\* longest generated input string of the sanitize_path harness
MaxPathLen == 3
\* most directories of a generated directory tree (the root included)
MaxDirs == 4
\* deepest directory level of a generated tree (the root is level 0)
MaxTreeDepth == 2
\* largest depth argument passed to find_requirements_files
MaxDepth == 2
\* longest requirements_files list handed to aggregate_requirements
MaxFiles == 2
\* most lines read from manifests over one run of aggregate_requirements
MaxLines == 3
\* longest directory list of one package in a generated aggregation mapping
MaxDirsPerKey == 2

\* ------------------------------------------------------- program constants
\* horizontal tab, the one control character sanitize_path keeps
TAB == 9
\* the last control character: sanitize_path keeps ord(char) > 31
LastControl == 31
\* int(input(...) or 2): the depth used when the answer is empty
DefaultDepth == 2

\* ----------------------------------------------------------------- strings
\* os.sep
Sep == 47
\* "requirements.txt"
ReqName == <<114, 101, 113, 117, 105, 114, 101, 109, 101, 110, 116, 115, 46, 116, 120, 116>>
\* "requirements_overview.csv"
CsvName == <<114, 101, 113, 117, 105, 114, 101, 109, 101, 110, 116, 115, 95, 111, 118, 101,
             114, 118, 105, 101, 119, 46, 99, 115, 118>>
\* "combined_requirements.txt"
DefaultName == <<99, 111, 109, 98, 105, 110, 101, 100, 95, 114, 101, 113, 117, 105, 114, 101,
                 109, 101, 110, 116, 115, 46, 116, 120, 116>>
\* "Directory"
DirectoryCell == <<68, 105, 114, 101, 99, 116, 111, 114, 121>>
\* "X"
XCell == <<88>>
\* "flask==2.0"
Flask == <<102, 108, 97, 115, 107, 61, 61, 50, 46, 48>>
\* "requests"
Requests == <<114, 101, 113, 117, 101, 115, 116, 115>>
\* "a", "b", "."
DirA == <<97>>
DirB == <<98>>
CurDir == <<46>>
ParDir == <<46, 46>>

\* all sequences over S of length at most n
RECURSIVE SeqsUpTo(_, _)
SeqsUpTo(S, n) ==
    IF n = 0 THEN {<<>>}
    ELSE LET shorter == SeqsUpTo(S, n - 1)
         IN  shorter \cup {Append(s, c) : s \in {t \in shorter : Len(t) = n - 1}, c \in S}

Range(s) == {s[i] : i \in 1..Len(s)}

\* str.isspace for the code points below 256
IsSpace(c) == c \in {9, 10, 11, 12, 13, 28, 29, 30, 31, 32, 133, 160}

RECURSIVE LStrip(_)
LStrip(s) == IF s # <<>> /\ IsSpace(Head(s)) THEN LStrip(Tail(s)) ELSE s

RECURSIVE RStrip(_)
RStrip(s) ==
    IF s # <<>> /\ IsSpace(s[Len(s)]) THEN RStrip(SubSeq(s, 1, Len(s) - 1)) ELSE s

\* str.strip()
Strip(s) == RStrip(LStrip(s))

\* str.startswith
StartsWith(s, p) == Len(s) >= Len(p) /\ SubSeq(s, 1, Len(p)) = p

\* str.split(sep) for a one-character separator: the pieces between separators
RECURSIVE SplitAcc(_, _, _, _)
SplitAcc(s, c, cur, acc) ==
    IF s = <<>> THEN Append(acc, cur)
    ELSE IF Head(s) = c THEN SplitAcc(Tail(s), c, <<>>, Append(acc, cur))
    ELSE SplitAcc(Tail(s), c, Append(cur, Head(s)), acc)

Split(s, c) == SplitAcc(s, c, <<>>, <<>>)

\* sep.join(parts)
RECURSIVE JoinWith(_, _)
JoinWith(parts, sep) ==
    IF parts = <<>> THEN <<>>
    ELSE IF Len(parts) = 1 THEN parts[1]
    ELSE parts[1] \o sep \o JoinWith(Tail(parts), sep)

\* os.path.join(a, b)
PathJoin(a, b) ==
    IF b # <<>> /\ Head(b) = Sep THEN b
    ELSE IF a = <<>> \/ a[Len(a)] = Sep THEN a \o b
    ELSE a \o <<Sep>> \o b

\* str.rstrip(os.sep)
RECURSIVE RStripSep(_)
RStripSep(s) ==
    IF s # <<>> /\ s[Len(s)] = Sep THEN RStripSep(SubSeq(s, 1, Len(s) - 1)) ELSE s

\* index of the last separator of s, 0 when there is none (str.rfind + 1)
LastSep(s) ==
    LET at == {i \in 1..Len(s) : s[i] = Sep}
    IN  IF at = {} THEN 0 ELSE CHOOSE i \in at : \A j \in at : j <= i

\* os.path.dirname(p)
DirName(p) ==
    LET head == SubSeq(p, 1, LastSep(p))
    IN  IF head # <<>> /\ Range(head) # {Sep} THEN RStripSep(head) ELSE head

\* ---------------------------------------------------------- sanitize_path
\* faulty variant: the tab is not excepted
KeepCharNoTab(c) == c > LastControl

\* the filter of sanitize_path's comprehension
KeepChar(c) == c > LastControl \/ c = TAB

\* sanitize_path(path)
sanitize_path(p) == SelectSeq(p, KeepChar)

\* ------------------------------------------------------------------- state
VARIABLES
    pc,                 \* position of the control thread
    path,               \* argument of sanitize_path
    sanitized,          \* sanitize_path(path)
    resanitized,        \* sanitize_path(sanitize_path(path))
    tree,               \* file system: the directories the scan can list, as
                        \* sequences of names below the scanned root
    manifests,          \* file system: the directories holding requirements.txt
    base_dir,           \* the scan root as the program holds it
    depth_arg,          \* the depth find_requirements_files was called with
    depth,              \* find_requirements_files' local depth
    count,              \* directories scanned
    stack,              \* os.walk: directories still to yield, next first
    requirements_files, \* list of manifest paths
    aggregated_data,    \* dict line -> list of directory identifiers
    fi,                 \* manifests taken from requirements_files so far
    relative_path,      \* directory identifier of the current manifest
    lines,              \* f.readlines() of the current manifest
    li,                 \* lines of the current manifest processed so far
    log,                \* history: <<req_file, readable, lines>> per open
    save_paths,         \* get_save_path's result
    si,                 \* save_outputs: paths handled in the current loop
    fsops,              \* history: <<operation, path>> of each file system call
    outputs,            \* files written: sequence of <<path, lines of text>>
    matrix              \* generate_dependency_matrix's list of rows

vars == <<pc, path, sanitized, resanitized, tree, manifests, base_dir, depth_arg,
          depth, count, stack, requirements_files, aggregated_data, fi,
          relative_path, lines, li, log, save_paths, si, fsops, outputs, matrix>>

sanitizeVars == <<path, sanitized, resanitized>>
fsVars == <<tree, manifests>>
findVars == <<depth_arg, depth, count, stack>>
aggVars == <<aggregated_data, fi, relative_path, lines, li, log>>
saveVars == <<save_paths, si, outputs, matrix>>

\* ------------------------------------------------- find_requirements_files
\* names of subdirectories
Names == {DirA, DirB}

AllDirs == SeqsUpTo(Names, MaxTreeDepth)

IsPrefixClosed(t) == \A d \in t : d = <<>> \/ SubSeq(d, 1, Len(d) - 1) \in t

\* the directory trees of at most MaxDirs directories
Trees == {t \in SUBSET AllDirs : <<>> \in t /\ Cardinality(t) <= MaxDirs /\ IsPrefixClosed(t)}

\* the path os.walk yields for the directory d below base: os.path.join per level
RECURSIVE RootOf(_, _)
RootOf(base, d) ==
    IF d = <<>> THEN base ELSE PathJoin(RootOf(base, SubSeq(d, 1, Len(d) - 1)), d[Len(d)])

\* os.path.join(root, "requirements.txt")
ManifestPath(base, d) == PathJoin(RootOf(base, d), ReqName)

Children(d) == {c \in tree : Len(c) = Len(d) + 1 /\ SubSeq(c, 1, Len(d)) = d}

\* the orders in which os.scandir may list the directories of S
Orders(S) ==
    {o \in [1..Cardinality(S) -> S] : \A i, j \in 1..Cardinality(S) : i # j => o[i] # o[j]}

\* for _ in root.split(os.sep): depth -= 1
DepthAfter(d, root) == d - Len(Split(root, Sep))

\* os.walk(base_dir): a root that cannot be listed yields nothing (onerror is None)
WalkStart ==
    /\ pc = "find"
    /\ requirements_files' = <<>>
    /\ count' = 0
    /\ stack' = IF <<>> \in tree THEN << <<>> >> ELSE <<>>
    /\ fsops' = fsops \cup {<<"walk", base_dir>>}
    /\ pc' = "walk"
    /\ UNCHANGED <<sanitizeVars, fsVars, base_dir, depth_arg, depth, aggVars, saveVars>>

\* one iteration of the for loop over os.walk
WalkStep ==
    /\ pc = "walk"
    /\ stack # <<>>
    /\ LET d == Head(stack)
           root == RootOf(base_dir, d)
       IN  /\ requirements_files' =
                 IF d \in manifests
                 THEN Append(requirements_files, PathJoin(root, ReqName))
                 ELSE requirements_files
           /\ depth' = DepthAfter(depth, root)
           /\ count' = count + 1
           /\ \E o \in Orders(Children(d)) : stack' = o \o Tail(stack)
    /\ UNCHANGED <<pc, sanitizeVars, fsVars, base_dir, depth_arg, aggVars, saveVars, fsops>>

\* return requirements_files
FindReturn ==
    /\ pc = "walk"
    /\ stack = <<>>
    /\ pc' = "find_done"
    /\ UNCHANGED <<sanitizeVars, fsVars, base_dir, findVars, requirements_files, aggVars,
                   saveVars, fsops>>

\* base_dir arguments of the function-level runs: "t" and "/t"
BaseDirs == {<<116>>, <<Sep, 116>>}

InitFind ==
    /\ pc = "find"
    /\ path = <<>> /\ sanitized = <<>> /\ resanitized = <<>>
    /\ tree \in Trees \cup {{}}
    /\ manifests \in SUBSET tree
    /\ base_dir \in BaseDirs
    /\ depth_arg \in 0..MaxDepth
    /\ depth = depth_arg
    /\ count = 0 /\ stack = <<>> /\ requirements_files = <<>>
    /\ aggregated_data = <<>> /\ fi = 0 /\ relative_path = <<>> /\ lines = <<>> /\ li = 0
    /\ log = <<>>
    /\ save_paths = <<>> /\ si = 0 /\ fsops = {} /\ outputs = <<>> /\ matrix = <<>>

NextFind == WalkStart \/ WalkStep \/ FindReturn

SpecFind == InitFind /\ [][NextFind]_vars

\* C1: every run of find_requirements_files(T, d) returns exactly the manifests of
\* the directories at most d levels below the root of T
C1_ExactlyWithinDepth ==
    pc = "find_done" =>
        Range(requirements_files) =
            {ManifestPath(base_dir, m) : m \in {x \in manifests : Len(x) <= depth_arg}}

\* C2: a scan with depth 0 returns no manifest but the root's own
C2_DepthZeroRootOnly ==
    (pc = "find_done" /\ depth_arg = 0) =>
        Range(requirements_files) \subseteq {ManifestPath(base_dir, <<>>)}

\* C6: a scan of a root that cannot be listed does not complete successfully
C6_MissingRootFails == (<<>> \notin tree) => pc # "find_done"

\* -------------------------------------------------- aggregate_requirements
\* the working directory of the process: "/w"
CwdParts == << <<119>> >>

\* the components of a path: split on os.sep, empty pieces dropped
NonEmpty(x) == x # <<>>
Parts(p) == SelectSeq(Split(p, Sep), NonEmpty)

\* os.path.normpath on components: "." dropped, ".." removes the component before it
RECURSIVE NormParts(_, _)
NormParts(todo, done) ==
    IF todo = <<>> THEN done
    ELSE IF Head(todo) = CurDir THEN NormParts(Tail(todo), done)
    ELSE IF Head(todo) = ParDir
         THEN NormParts(Tail(todo), IF done = <<>> THEN done ELSE SubSeq(done, 1, Len(done) - 1))
    ELSE NormParts(Tail(todo), Append(done, Head(todo)))

\* os.path.abspath, as components below "/"
AbsParts(p) ==
    IF p # <<>> /\ Head(p) = Sep THEN NormParts(Parts(p), <<>>)
    ELSE NormParts(CwdParts \o Parts(p), <<>>)

\* length of the longest common prefix of two sequences
RECURSIVE CommonLen(_, _)
CommonLen(a, b) ==
    IF a # <<>> /\ b # <<>> /\ Head(a) = Head(b) THEN 1 + CommonLen(Tail(a), Tail(b)) ELSE 0

\* os.path.relpath(p, start) for a non-empty p
RelPath(p, start) ==
    LET sl == AbsParts(start)
        pl == AbsParts(p)
        i == CommonLen(sl, pl)
        rel == [k \in 1..(Len(sl) - i) |-> ParDir] \o SubSeq(pl, i + 1, Len(pl))
    IN  IF rel = <<>> THEN CurDir ELSE JoinWith(rel, <<Sep>>)

\* dict: key in d
DictHas(d, k) == \E i \in 1..Len(d) : d[i][1] = k

\* dict: d[key]
DictGet(d, k) == d[CHOOSE i \in 1..Len(d) : d[i][1] = k][2]

\* list(d.keys())
DictKeys(d) == [i \in 1..Len(d) |-> d[i][1]]

\* if line and not line.startswith("#")
KeepLine(line) == line # <<>> /\ ~StartsWith(line, <<35>>)

\* faulty variant: the directory is put in front of the key's list
DictAddInFront(d, k, v) ==
    IF DictHas(d, k)
    THEN [i \in 1..Len(d) |-> IF d[i][1] = k THEN <<k, <<v>> \o d[i][2]>> ELSE d[i]]
    ELSE Append(d, <<k, <<v>>>>)

\* faulty variant: the key's list is overwritten by the one directory
DictAddOverwrite(d, k, v) ==
    IF DictHas(d, k)
    THEN [i \in 1..Len(d) |-> IF d[i][1] = k THEN <<k, <<v>>>> ELSE d[i]]
    ELSE Append(d, <<k, <<v>>>>)

\* aggregated_data[line].append(relative_path), or aggregated_data[line] = [relative_path]
DictAdd(d, k, v) ==
    IF DictHas(d, k)
    THEN [i \in 1..Len(d) |-> IF d[i][1] = k THEN <<k, Append(d[i][2], v)>> ELSE d[i]]
    ELSE Append(d, <<k, <<v>>>>)

\* faulty variant: the line is tested before it is stripped
ProcessLineTestsRaw(d, raw, rel) ==
    IF KeepLine(raw) THEN DictAdd(d, Strip(raw), rel) ELSE d

\* the body of the loop over f.readlines()
ProcessLine(d, raw, rel) ==
    LET line == Strip(raw)
    IN  IF KeepLine(line) THEN DictAdd(d, line, rel) ELSE d

\* faulty variant: the unreadable manifest is skipped and the loop goes on
AfterOpenErrorSkip == "agg_loop"

\* where control goes when open(req_file) raises: nothing catches it
AfterOpenError == "error"

\* the lines a manifest may hold
Lines ==
    { Flask \o <<10>>,                                       \* "flask==2.0\n"
      Requests \o <<10>>,                                    \* "requests\n"
      <<35, 32, 99, 111, 109, 109, 101, 110, 116, 10>>,      \* "# comment\n"
      <<10>>,                                                \* "\n"
      <<32, 32, 35, 32, 99, 10>> }                           \* "  # c\n"

\* number of lines read from manifests so far
RECURSIVE LinesRead(_)
LinesRead(l) == IF l = <<>> THEN 0 ELSE Len(l[Len(l)][3]) + LinesRead(SubSeq(l, 1, Len(l) - 1))

\* aggregated_data = {}
AggStart ==
    /\ pc = "agg"
    /\ aggregated_data' = <<>>
    /\ fi' = 0
    /\ pc' = "agg_loop"
    /\ UNCHANGED <<sanitizeVars, fsVars, base_dir, findVars, requirements_files,
                   relative_path, lines, li, log, saveVars, fsops>>

\* for req_file in requirements_files: relpath, open, readlines
AggOpen ==
    /\ pc = "agg_loop"
    /\ fi < Len(requirements_files)
    /\ fi' = fi + 1
    /\ LET req_file == requirements_files[fi + 1]
           dir == DirName(req_file)
       IN  IF dir = <<>>
           THEN \* relpath("") raises ValueError
                /\ pc' = "error"
                /\ UNCHANGED <<relative_path, lines, li, log, fsops>>
           ELSE /\ relative_path' = RelPath(dir, base_dir)
                /\ fsops' = fsops \cup {<<"open", req_file>>}
                /\ \/ /\ pc' = AfterOpenError
                      /\ log' = Append(log, <<req_file, FALSE, <<>>>>)
                      /\ UNCHANGED <<lines, li>>
                   \/ \E ls \in SeqsUpTo(Lines, MaxLines - LinesRead(log)) :
                         /\ lines' = ls
                         /\ li' = 0
                         /\ log' = Append(log, <<req_file, TRUE, ls>>)
                         /\ pc' = "agg_lines"
    /\ UNCHANGED <<sanitizeVars, fsVars, base_dir, findVars, requirements_files,
                   aggregated_data, saveVars>>

\* one iteration of the loop over the lines
AggLine ==
    /\ pc = "agg_lines"
    /\ li < Len(lines)
    /\ li' = li + 1
    /\ aggregated_data' = ProcessLine(aggregated_data, lines[li + 1], relative_path)
    /\ UNCHANGED <<pc, sanitizeVars, fsVars, base_dir, findVars, requirements_files, fi,
                   relative_path, lines, log, saveVars, fsops>>

\* the with block ends: the manifest is closed
AggClose ==
    /\ pc = "agg_lines"
    /\ li = Len(lines)
    /\ pc' = "agg_loop"
    /\ UNCHANGED <<sanitizeVars, fsVars, base_dir, findVars, requirements_files, aggVars,
                   saveVars, fsops>>

\* return aggregated_data
AggReturn ==
    /\ pc = "agg_loop"
    /\ fi = Len(requirements_files)
    /\ pc' = "agg_done"
    /\ UNCHANGED <<sanitizeVars, fsVars, base_dir, findVars, requirements_files, aggVars,
                   saveVars, fsops>>

\* the directories whose manifests the function-level runs list
AggDirs == {<<DirA>>, <<DirB>>}

InitAgg ==
    /\ pc = "agg"
    /\ path = <<>> /\ sanitized = <<>> /\ resanitized = <<>>
    /\ tree = AggDirs /\ manifests = AggDirs
    /\ base_dir = <<116>>
    /\ depth_arg = 0 /\ depth = 0 /\ count = 0 /\ stack = <<>>
    /\ requirements_files \in SeqsUpTo({ManifestPath(base_dir, d) : d \in AggDirs}, MaxFiles)
    /\ aggregated_data = <<>> /\ fi = 0 /\ relative_path = <<>> /\ lines = <<>> /\ li = 0
    /\ log = <<>>
    /\ save_paths = <<>> /\ si = 0 /\ fsops = {} /\ outputs = <<>> /\ matrix = <<>>

NextAgg == AggStart \/ AggOpen \/ AggLine \/ AggClose \/ AggReturn

SpecAgg == InitAgg /\ [][NextAgg]_vars

\* the lines processed so far, each with the manifest it was read from
RECURSIVE Flatten(_)
Flatten(ss) == IF ss = <<>> THEN <<>> ELSE Head(ss) \o Flatten(Tail(ss))

Processed ==
    Flatten([i \in 1..Len(log) |->
        LET done == IF i < Len(log) THEN log[i][3]
                    ELSE IF log[i][2] THEN SubSeq(lines, 1, li) ELSE <<>>
        IN  [k \in 1..Len(done) |-> <<log[i][1], done[k]>>]])

\* the directory of a manifest path, written relative to base_dir
DirIdOf(req_file) ==
    LET d == CHOOSE x \in AllDirs : ManifestPath(base_dir, x) = req_file
    IN  IF d = <<>> THEN CurDir ELSE JoinWith(d, <<Sep>>)

\* some open of a manifest has failed
OpenFailed == \E i \in 1..Len(log) : ~log[i][2]

\* C3: each key's sequence is, in the order the manifests were visited, the
\* directory of every processed line whose trimmed text is the key; no key occurs
\* twice and the keys stand in the order of their first lines;
\* a = [flask==2.0], b = [flask==2.0, requests] gives
\* {flask==2.0: [a, b], requests: [b]}
C3_AppendInVisitOrder ==
    LET P == Processed
        Of(k) == LET Is(p) == Strip(p[2]) = k
                     sel == SelectSeq(P, Is)
                 IN  [i \in 1..Len(sel) |-> DirIdOf(sel[i][1])]
    IN  /\ \A i \in 1..Len(aggregated_data) :
              aggregated_data[i][2] = Of(aggregated_data[i][1])
        /\ \A i, j \in 1..Len(aggregated_data) :
              i # j => aggregated_data[i][1] # aggregated_data[j][1]
        /\ \A i, j \in 1..Len(aggregated_data) :
              i < j => \E m \in 1..Len(P) :
                          /\ Strip(P[m][2]) = aggregated_data[i][1]
                          /\ \A n \in 1..m : Strip(P[n][2]) # aggregated_data[j][1]
        /\ (/\ pc = "agg_done"
            /\ log = << <<ManifestPath(base_dir, <<DirA>>), TRUE, <<Flask \o <<10>>>> >>,
                        <<ManifestPath(base_dir, <<DirB>>), TRUE,
                          <<Flask \o <<10>>, Requests \o <<10>>>> >> >>)
           => aggregated_data = << <<Flask, <<DirA, DirB>>>>, <<Requests, <<DirB>>>> >>

\* the scenario of C3 has been aggregated
C3_Witness ==
    /\ pc = "agg_done"
    /\ aggregated_data = << <<Flask, <<DirA, DirB>>>>, <<Requests, <<DirB>>>> >>

\* k is raw without its leading and trailing whitespace, and is not empty
IsTrimOf(k, raw) ==
    /\ k # <<>> /\ ~IsSpace(k[1]) /\ ~IsSpace(k[Len(k)])
    /\ \E i \in 0..Len(raw) : \E j \in i..Len(raw) :
          /\ k = SubSeq(raw, i + 1, j)
          /\ \A x \in (1..i) \cup ((j + 1)..Len(raw)) : IsSpace(raw[x])

\* raw is blank, or its first character that is not whitespace is '#'
IsBlankOrComment(raw) ==
    LET ns == {x \in 1..Len(raw) : ~IsSpace(raw[x])}
    IN  ns = {} \/ raw[CHOOSE x \in ns : \A y \in ns : x <= y] = 35

RECURSIVE TotalDirs(_)
TotalDirs(d) == IF d = <<>> THEN 0 ELSE Len(Head(d)[2]) + TotalDirs(Tail(d))

\* C4: every key is the trimmed text of a processed line that is neither blank
\* nor a comment, and the blank and comment lines add nothing to the mapping
C4_KeysAreKeptLines ==
    LET P == Processed
    IN  /\ \A i \in 1..Len(aggregated_data) :
              \E k \in 1..Len(P) :
                  /\ IsTrimOf(aggregated_data[i][1], P[k][2])
                  /\ ~IsBlankOrComment(P[k][2])
        /\ TotalDirs(aggregated_data) =
              Cardinality({k \in 1..Len(P) : ~IsBlankOrComment(P[k][2])})

\* blank, comment and indented comment lines were processed beside a kept one
C4_Witness ==
    /\ pc = "agg_done"
    /\ aggregated_data # <<>>
    /\ \E k \in 1..Len(Processed) : Processed[k][2] = <<32, 32, 35, 32, 99, 10>>
    /\ \E k \in 1..Len(Processed) : Processed[k][2] = <<10>>

\* C5: no key ever maps to an empty sequence, and a step removes no key and no
\* element of a sequence
C5_NonEmptyNoRemoval ==
    /\ [](\A i \in 1..Len(aggregated_data) : aggregated_data[i][2] # <<>>)
    /\ [][\A i \in 1..Len(aggregated_data) :
            /\ i <= Len(aggregated_data')
            /\ aggregated_data'[i][1] = aggregated_data[i][1]
            /\ Len(aggregated_data'[i][2]) >= Len(aggregated_data[i][2])
            /\ SubSeq(aggregated_data'[i][2], 1, Len(aggregated_data[i][2]))
                  = aggregated_data[i][2]]_vars

\* a key has received a second directory while the aggregation is still running
C5_Witness ==
    /\ pc = "agg_lines"
    /\ \E i \in 1..Len(aggregated_data) : Len(aggregated_data[i][2]) >= 2

\* ---------------------------------------------- generate_dependency_matrix
\* [item for sublist in aggregated_data.values() for item in sublist]
AllItems(d) == Flatten([i \in 1..Len(d) |-> d[i][2]])

\* set(...): the distinct directory identifiers
UniqueDirs(d) == Range(AllItems(d))

\* faulty variant: only the first directory of the package is looked at
CellFirstOnly(d, directory, pkg) == IF directory = DictGet(d, pkg)[1] THEN XCell ELSE <<>>

\* "X" if directory in aggregated_data[pkg] else ""
Cell(d, directory, pkg) == IF directory \in Range(DictGet(d, pkg)) THEN XCell ELSE <<>>

\* ["Directory"] + list(aggregated_data.keys())
Header(d) == <<DirectoryCell>> \o DictKeys(d)

\* [directory] + [cell for pkg in header[1:]]
Row(d, directory) ==
    <<directory>> \o [i \in 1..Len(d) |-> Cell(d, directory, Header(d)[i + 1])]

\* the matrix for the order in which list(set(...)) lists the directories
Matrix(d, order) == <<Header(d)>> \o [i \in 1..Len(order) |-> Row(d, order[i])]

\* csv.writer, QUOTE_MINIMAL: a field holding the delimiter, a quote or a line
\* break is quoted, its quotes doubled
NeedsQuote(f) == \E i \in 1..Len(f) : f[i] \in {44, 34, 13, 10}

RECURSIVE DoubleQuotes(_)
DoubleQuotes(f) ==
    IF f = <<>> THEN <<>>
    ELSE (IF Head(f) = 34 THEN <<34, 34>> ELSE <<Head(f)>>) \o DoubleQuotes(Tail(f))

CsvField(f) == IF NeedsQuote(f) THEN <<34>> \o DoubleQuotes(f) \o <<34>> ELSE f

\* writer.writerow(row): the fields joined by commas, ended by "\r\n"; a row of
\* one empty field is written as a pair of quotes
CsvLine(row) ==
    IF row = << <<>> >> THEN <<34, 34, 13, 10>>
    ELSE JoinWith([i \in 1..Len(row) |-> CsvField(row[i])], <<44>>) \o <<13, 10>>

\* writer.writerows(matrix)
CsvText(m) == [i \in 1..Len(m) |-> CsvLine(m[i])]

\* generate_dependency_matrix(aggregated_data, base_dir): the matrix is built, the
\* file is opened and written, and control goes to next; the file system may refuse
\* the open
GenerateMatrix(dir, next) ==
    /\ fsops' = fsops \cup {<<"open", PathJoin(dir, CsvName)>>}
    /\ \E order \in Orders(UniqueDirs(aggregated_data)) :
          /\ matrix' = Matrix(aggregated_data, order)
          /\ \/ /\ outputs' = Append(outputs, <<PathJoin(dir, CsvName), CsvText(matrix')>>)
                /\ pc' = next
             \/ /\ pc' = "error"
                /\ UNCHANGED outputs

MatrixCall ==
    /\ pc = "matrix"
    /\ GenerateMatrix(base_dir, "matrix_done")
    /\ UNCHANGED <<sanitizeVars, fsVars, base_dir, findVars, requirements_files, aggVars,
                   save_paths, si>>

\* "p,q": a package line holding a comma
CommaKey == <<112, 44, 113>>

\* the package lines of the generated mappings
MatrixKeys == {Flask, Requests, CommaKey}

\* the mappings of at most two packages, each with 1..MaxDirsPerKey directories
Mappings ==
    LET DirLists == SeqsUpTo({DirA, DirB}, MaxDirsPerKey) \ {<<>>}
    IN  {<<>>}
        \cup {<< <<k, ds>> >> : k \in MatrixKeys, ds \in DirLists}
        \cup UNION {{<< <<k1, ds1>>, <<k2, ds2>> >> : k2 \in MatrixKeys \ {k1}, ds2 \in DirLists}
                    : k1 \in MatrixKeys, ds1 \in DirLists}

InitMatrix ==
    /\ pc = "matrix"
    /\ path = <<>> /\ sanitized = <<>> /\ resanitized = <<>>
    /\ tree = {<<>>} /\ manifests = {}
    /\ base_dir = <<116>>
    /\ depth_arg = 0 /\ depth = 0 /\ count = 0 /\ stack = <<>>
    /\ requirements_files = <<>>
    /\ aggregated_data \in Mappings
    /\ fi = 0 /\ relative_path = <<>> /\ lines = <<>> /\ li = 0
    /\ log = <<>>
    /\ save_paths = <<>> /\ si = 0 /\ fsops = {} /\ outputs = <<>> /\ matrix = <<>>

NextMatrix == MatrixCall

SpecMatrix == InitMatrix /\ [][NextMatrix]_vars

\* C8: the header is 'Directory' and the keys in mapping order; every distinct
\* directory of the mapping has exactly one row; a cell is 'X' where the directory
\* is in the package's sequence and empty elsewhere; the scenario mapping is
\* written as 'Directory,flask==2.0,requests', 'a,X,' and 'b,X,X'
C8_MatrixRows ==
    pc = "matrix_done" =>
        LET d == aggregated_data
            dirs == UNION {Range(d[i][2]) : i \in 1..Len(d)}
            text == outputs[Len(outputs)][2]
        IN  /\ Len(matrix[1]) = 1 + Len(d)
            /\ matrix[1][1] = DirectoryCell
            /\ \A k \in 1..Len(d) : matrix[1][k + 1] = d[k][1]
            /\ Len(matrix) = 1 + Cardinality(dirs)
            /\ \A x \in dirs : Cardinality({r \in 2..Len(matrix) : matrix[r][1] = x}) = 1
            /\ \A r \in 2..Len(matrix) :
                  /\ Len(matrix[r]) = 1 + Len(d)
                  /\ \A k \in 1..Len(d) :
                        matrix[r][k + 1] =
                            IF \E j \in 1..Len(d[k][2]) : d[k][2][j] = matrix[r][1]
                            THEN XCell ELSE <<>>
            /\ d = << <<Flask, <<DirA, DirB>>>>, <<Requests, <<DirB>>>> >> =>
                  /\ Len(text) = 3
                  /\ text[1] = DirectoryCell \o <<44>> \o Flask \o <<44>> \o Requests
                                 \o <<13, 10>>
                  /\ {text[2], text[3]} = { <<97, 44, 88, 44, 13, 10>>,
                                            <<98, 44, 88, 44, 88, 13, 10>> }

\* the matrix of the scenario mapping has been written
C8_Witness ==
    /\ pc = "matrix_done"
    /\ aggregated_data = << <<Flask, <<DirA, DirB>>>>, <<Requests, <<DirB>>>> >>
    /\ Len(outputs) = 1

\* ------------------------------------------------- sanitize_path, standalone
\* "foo\x07bar" and "foo\tbar"
FooBelBar == <<102, 111, 111, 7, 98, 97, 114>>
FooTabBar == <<102, 111, 111, 9, 98, 97, 114>>
FooBar == <<102, 111, 111, 98, 97, 114>>

\* the characters of the generated input strings: BEL, TAB, ESC, US, space, 'a'
PathChars == {7, 9, 27, 31, 32, 97}

SanitizeCall ==
    /\ pc = "sanitize"
    /\ sanitized' = sanitize_path(path)
    /\ pc' = "sanitized"
    /\ UNCHANGED <<path, resanitized, fsVars, base_dir, findVars, requirements_files,
                   aggVars, saveVars, fsops>>

SanitizeAgain ==
    /\ pc = "sanitized"
    /\ resanitized' = sanitize_path(sanitized)
    /\ pc' = "resanitized"
    /\ UNCHANGED <<path, sanitized, fsVars, base_dir, findVars, requirements_files,
                   aggVars, saveVars, fsops>>

InitSanitize ==
    /\ pc = "sanitize"
    /\ path \in SeqsUpTo(PathChars, MaxPathLen) \cup {FooBelBar, FooTabBar}
    /\ sanitized = <<>> /\ resanitized = <<>>
    /\ tree = {<<>>} /\ manifests = {}
    /\ base_dir = <<>>
    /\ depth_arg = 0 /\ depth = 0 /\ count = 0 /\ stack = <<>>
    /\ requirements_files = <<>>
    /\ aggregated_data = <<>> /\ fi = 0 /\ relative_path = <<>> /\ lines = <<>> /\ li = 0
    /\ log = <<>>
    /\ save_paths = <<>> /\ si = 0 /\ fsops = {} /\ outputs = <<>> /\ matrix = <<>>

NextSanitize == SanitizeCall \/ SanitizeAgain

SpecSanitize == InitSanitize /\ [][NextSanitize]_vars

\* a control character other than the horizontal tab
IsControl(c) == c <= 31 /\ c # 9

\* C9: the result holds the characters of the input that are not control
\* characters, tab excepted, in their order, and nothing else; "foo\x07bar" gives
\* "foobar", "foo\tbar" is unchanged; sanitising the result changes nothing
C9_SanitizeRemovesControls ==
    LET kept == {i \in 1..Len(path) : ~IsControl(path[i])}
    IN  /\ pc \in {"sanitized", "resanitized"} =>
              /\ Len(sanitized) = Cardinality(kept)
              /\ \A i \in kept : sanitized[Cardinality({j \in kept : j <= i})] = path[i]
              /\ (path = FooBelBar => sanitized = FooBar)
              /\ (path = FooTabBar => sanitized = FooTabBar)
        /\ pc = "resanitized" => resanitized = sanitized

\* an input with a control character, a tab and a printable character was
\* sanitised twice
C9_Witness ==
    /\ pc = "resanitized"
    /\ {7, 9, 97} \subseteq Range(path)
    /\ sanitized # path

\* -------------------------------------------------------------------- main
\* str.replace(os.sep, "-")
ReplaceSep(p) == [i \in 1..Len(p) |-> IF p[i] = Sep THEN 45 ELSE p[i]]

\* str.strip("-")
RECURSIVE StripDash(_)
StripDash(p) ==
    IF p # <<>> /\ Head(p) = 45 THEN StripDash(Tail(p))
    ELSE IF p # <<>> /\ p[Len(p)] = 45 THEN StripDash(SubSeq(p, 1, Len(p) - 1))
    ELSE p

\* os.path.dirname(os.path.realpath(__file__)): "/g"
AggregatorDir == <<Sep, 103>>
\* "outputs"
OutputsName == <<111, 117, 116, 112, 117, 116, 115>>

IsDigits(x) == x # <<>> /\ \A i \in 1..Len(x) : x[i] \in 48..57

RECURSIVE DigitsValue(_)
DigitsValue(x) ==
    IF x = <<>> THEN 0 ELSE 10 * DigitsValue(SubSeq(x, 1, Len(x) - 1)) + (x[Len(x)] - 48)

\* int(answer) accepts surrounding whitespace, an optional sign and decimal digits
IntBody(answer) ==
    LET t == Strip(answer)
    IN  IF t # <<>> /\ Head(t) \in {43, 45} THEN Tail(t) ELSE t

IsInt(answer) == IsDigits(IntBody(answer))

IntValue(answer) ==
    IF Strip(answer)[1] = 45 THEN 0 - DigitsValue(IntBody(answer))
    ELSE DigitsValue(IntBody(answer))

\* answers to "Enter the root directory to start scanning: ": "t", ESC "t"
RootAnswers == {<<116>>, <<27, 116>>}
\* answers to "Enter the search depth (default 2): ": "", "1", "x"
DepthAnswers == {<<>>, <<49>>, <<120>>}
\* answers to "Enter choice number ...": "0", "1", "2", "0,2"
ChoiceAnswers == {<<48>>, <<49>>, <<50>>, <<48, 44, 50>>}
\* answers to "Enter the path to the custom directory: ": "o", "o" ESC "p", ""
CustomAnswers == {<<111>>, <<111, 27, 112>>, <<>>}
\* answers to "Enter a custom name ...": "", "n" BEL "m"
NameAnswers == {<<>>, <<110, 7, 109>>}

\* base_dir = sanitize_path(input(...)); depth = int(input(...) or 2);
\* find_requirements_files(base_dir, depth) is called
MainStart ==
    /\ pc = "main"
    /\ \E raw \in RootAnswers, answer \in DepthAnswers :
          /\ base_dir' = sanitize_path(raw)
          /\ IF answer = <<>>
             THEN depth_arg' = DefaultDepth /\ depth' = DefaultDepth /\ pc' = "find"
             ELSE IF IsInt(answer)
             THEN depth_arg' = IntValue(answer) /\ depth' = IntValue(answer) /\ pc' = "find"
             ELSE \* int() raises ValueError
                  pc' = "error" /\ UNCHANGED <<depth_arg, depth>>
    /\ UNCHANGED <<sanitizeVars, fsVars, count, stack, requirements_files, aggVars, saveVars,
                   fsops>>

\* aggregate_requirements(requirements_files, base_dir) is called
MainAggregate ==
    /\ pc = "find_done"
    /\ pc' = "agg"
    /\ UNCHANGED <<sanitizeVars, fsVars, base_dir, findVars, requirements_files, aggVars,
                   saveVars, fsops>>

\* save_paths[c] for c in choice.split(",") if c in save_paths
RECURSIVE Selected(_, _, _, _)
Selected(cs, p0, p1, p2) ==
    IF cs = <<>> THEN <<>>
    ELSE (IF Head(cs) = <<48>> THEN <<p0>>
          ELSE IF Head(cs) = <<49>> THEN <<p1>>
          ELSE IF Head(cs) = <<50>> THEN <<p2>>
          ELSE <<>>) \o Selected(Tail(cs), p0, p1, p2)

\* get_save_path(base_dir) for the three answers
SavePathsFor(base, choice, custom, name) ==
    LET short_path == StripDash(ReplaceSep(base))
        inside == PathJoin(PathJoin(AggregatorDir, OutputsName), short_path)
        selected_paths == Selected(Split(choice, 44), base, inside, Strip(custom))
        custom_name == Strip(name)
        filename == IF custom_name # <<>> THEN custom_name ELSE DefaultName
    IN  [i \in 1..Len(selected_paths) |-> PathJoin(selected_paths[i], filename)]

\* save_paths = get_save_path(base_dir); save_outputs is called
MainGetSavePath ==
    /\ pc = "agg_done"
    /\ \E choice \in ChoiceAnswers, custom \in CustomAnswers, name \in NameAnswers :
          save_paths' = SavePathsFor(base_dir, choice, custom, name)
    /\ si' = 0
    /\ pc' = "save"
    /\ UNCHANGED <<sanitizeVars, fsVars, base_dir, findVars, requirements_files, aggVars,
                   outputs, matrix, fsops>>

\* f"# {pkg} is required in: {', '.join(dirs)}\n" and f"{pkg}\n" per package
CombinedText(d) ==
    Flatten([i \in 1..Len(d) |->
        << <<35, 32>> \o d[i][1]
              \o <<32, 105, 115, 32, 114, 101, 113, 117, 105, 114, 101, 100, 32, 105, 110, 58, 32>>
              \o JoinWith(d[i][2], <<44, 32>>) \o <<10>>,
           d[i][1] \o <<10>> >>])

\* first loop of save_outputs: os.makedirs(dirname), open(path, "w"), the writes;
\* os.makedirs("") raises, and the file system may refuse either call
SaveCombined ==
    /\ pc = "save"
    /\ si < Len(save_paths)
    /\ LET p == save_paths[si + 1]
           dir == DirName(p)
       IN  \/ /\ dir # <<>>
              /\ fsops' = fsops \cup {<<"makedirs", dir>>, <<"open", p>>}
              /\ outputs' = Append(outputs, <<p, CombinedText(aggregated_data)>>)
              /\ si' = si + 1
              /\ UNCHANGED pc
           \/ /\ fsops' = fsops \cup {<<"makedirs", dir>>}
              /\ pc' = "error"
              /\ UNCHANGED <<outputs, si>>
           \/ /\ dir # <<>>
              /\ fsops' = fsops \cup {<<"makedirs", dir>>, <<"open", p>>}
              /\ pc' = "error"
              /\ UNCHANGED <<outputs, si>>
    /\ UNCHANGED <<sanitizeVars, fsVars, base_dir, findVars, requirements_files, aggVars,
                   save_paths, matrix>>

\* the first loop ends; matrix_paths is built
SaveCombinedDone ==
    /\ pc = "save"
    /\ si = Len(save_paths)
    /\ si' = 0
    /\ pc' = "save_matrix"
    /\ UNCHANGED <<sanitizeVars, fsVars, base_dir, findVars, requirements_files, aggVars,
                   save_paths, outputs, matrix, fsops>>

\* second loop of save_outputs: generate_dependency_matrix per matrix path
SaveMatrix ==
    /\ pc = "save_matrix"
    /\ si < Len(save_paths)
    /\ GenerateMatrix(DirName(PathJoin(DirName(save_paths[si + 1]), CsvName)), "save_matrix")
    /\ si' = si + 1
    /\ UNCHANGED <<sanitizeVars, fsVars, base_dir, findVars, requirements_files, aggVars,
                   save_paths>>

\* save_outputs returns; main prints its last line
MainDone ==
    /\ pc = "save_matrix"
    /\ si = Len(save_paths)
    /\ pc' = "done"
    /\ UNCHANGED <<sanitizeVars, fsVars, base_dir, findVars, requirements_files, aggVars,
                   saveVars, fsops>>

Init ==
    /\ pc = "main"
    /\ path = <<>> /\ sanitized = <<>> /\ resanitized = <<>>
    /\ \/ tree = {} /\ manifests = {}
       \/ tree = {<<>>, <<DirA>>} /\ manifests = {<<>>, <<DirA>>}
    /\ base_dir = <<>>
    /\ depth_arg = 0 /\ depth = 0 /\ count = 0 /\ stack = <<>>
    /\ requirements_files = <<>>
    /\ aggregated_data = <<>> /\ fi = 0 /\ relative_path = <<>> /\ lines = <<>> /\ li = 0
    /\ log = <<>>
    /\ save_paths = <<>> /\ si = 0 /\ fsops = {} /\ outputs = <<>> /\ matrix = <<>>

Next ==
    \/ MainStart
    \/ WalkStart \/ WalkStep \/ FindReturn
    \/ MainAggregate
    \/ AggStart \/ AggOpen \/ AggLine \/ AggClose \/ AggReturn
    \/ MainGetSavePath
    \/ SaveCombined \/ SaveCombinedDone \/ SaveMatrix
    \/ MainDone

Spec == Init /\ [][Next]_vars

\* C7: once a manifest could not be opened, the run has failed: no mapping is
\* returned and no combined manifest and no presence matrix is ever written
C7_ReadErrorAborts == OpenFailed => (pc = "error" /\ outputs = <<>>)

\* a manifest could not be opened after an earlier one had been aggregated
C7_Witness == OpenFailed /\ aggregated_data # <<>>

\* C10: no path handed to os.walk, os.makedirs or open holds a control character
\* other than the tab
C10_NoControlReachesFs ==
    \A op \in fsops : \A i \in 1..Len(op[2]) : ~IsControl(op[2][i])

====
